---- MODULE Spec2Model ----
(***************************************************************************)
(* A model of metadata_generator.py: the DOI value class, the metadata     *)
(* document builder create_zenodo_xml, the row loop of main() with the     *)
(* archives it leaves in the output directory, and the serializer          *)
(* my_prettify.                                                            *)
(*                                                                         *)
(* Python strings are sequences of one-character strings, so that          *)
(* str.strip, the regular expression of DOI.url and the f-string           *)
(* renderings are computed character by character.                         *)
(***************************************************************************)
EXTENDS Integers, Sequences, FiniteSets, TLC

VARIABLES
    din,        \* the string handed to DOI(...)
    dobj,       \* the DOI object built from din (or the exception raised)
    drendered,  \* dobj.full or dobj.url
    dobj2,      \* the DOI object built from drendered
    dpc,        \* "new" | "parsed" | "rejected" | "rendered" | "reparsed"
    zin,        \* the arguments (toc_paper, arti_row) of create_zenodo_xml
    zout,       \* the document it returns (or the exception raised)
    zpc,        \* "call" | "returned" | "raised"
    inputs,     \* the two input files and the output directory before the run
    runA,       \* the state of one run of main()
    runB,       \* the state of a second run of main() over the same inputs
    pxml,       \* the tree handed to my_prettify
    ptext,      \* xml.prettify(formatter=MyFormatter()) + '\n', line by line
    pout,       \* the text after the substitution of my_prettify
    pout2,      \* the text after the same substitution applied to pout
    ppc         \* "built" | "indented" | "collapsed" | "twice"

\* The variables of the serializer.
pvars == <<pxml, ptext, pout, pout2, ppc>>

vars == <<din, dobj, drendered, dobj2, dpc, zin, zout, zpc, inputs, runA, runB, pvars>>

----------------------------------------------------------------------------
(* Strings *)

\* Python's None, kept apart from every string of one-character elements.
None == <<"<None>">>

Digits == {"0", "1", "2", "3", "4", "5", "6", "7", "8", "9"}

Whitespace == {" ", "\t", "\n", "\r"}

RECURSIVE lstrip(_)
lstrip(s) ==
    IF s # <<>> /\ Head(s) \in Whitespace THEN lstrip(Tail(s)) ELSE s

RECURSIVE rstrip(_)
rstrip(s) ==
    IF s # <<>> /\ s[Len(s)] \in Whitespace
    THEN rstrip(SubSeq(s, 1, Len(s) - 1))
    ELSE s

\* str.strip()
strip(s) == rstrip(lstrip(s))

\* All sequences over alphabet of length at most n.
SeqsUpTo(alphabet, n) == UNION {[1..k -> alphabet] : k \in 0..n}

----------------------------------------------------------------------------
(* Exceptions *)

NoErr == [kind |-> "none", msg |-> "", arg |-> <<>>]

ValueError(msg, arg) == [kind |-> "ValueError", msg |-> msg, arg |-> arg]

AssertionError(msg) == [kind |-> "AssertionError", msg |-> msg, arg |-> <<>>]

----------------------------------------------------------------------------
(* class DOI *)

LitDoiColon == <<"d","o","i",":">>
LitHttp == <<"h","t","t","p">>
LitS == <<"s">>
LitColonSlashSlash == <<":","/","/">>
LitDxDot == <<"d","x",".">>
LitDoiOrgSlash == <<"d","o","i",".","o","r","g","/">>
LitHttpsDoiOrg == <<"h","t","t","p","s",":","/","/","d","o","i",".","o","r","g","/">>

\* A literal of the pattern at position p; 0 is "no match".
MatchLit(s, p, lit) ==
    IF /\ p # 0
       /\ p + Len(lit) - 1 <= Len(s)
       /\ \A j \in 1..Len(lit) : s[p + j - 1] = lit[j]
    THEN p + Len(lit)
    ELSE 0

\* The positions after (?:doi:|https?://(?:dx\.)?doi\.org/)? from position 1,
\* in the order the backtracking matcher tries them: the first alternative,
\* the second with each greedy optional taken before it is given up, then
\* the whole group skipped.
LeadInEnds(s) ==
    LET http   == MatchLit(s, 1, LitHttp)
        https  == MatchLit(s, http, LitS)
        afterS == MatchLit(s, https, LitColonSlashSlash)
        after  == MatchLit(s, http, LitColonSlashSlash)
    IN  << MatchLit(s, 1, LitDoiColon),
           MatchLit(s, MatchLit(s, afterS, LitDxDot), LitDoiOrgSlash),
           MatchLit(s, afterS, LitDoiOrgSlash),
           MatchLit(s, MatchLit(s, after, LitDxDot), LitDoiOrgSlash),
           MatchLit(s, after, LitDoiOrgSlash),
           1 >>

\* $ without re.MULTILINE: the end of the string, or just before a newline
\* that ends it.
DollarAt(s, t) ==
    \/ t = Len(s) + 1
    \/ t = Len(s) /\ s[t] = "\n"

\* ([^/]+)$ from position q: the ends of group 2 (exclusive).
SuffixEnds(s, q) ==
    {t \in (q + 1)..(Len(s) + 1) :
        /\ \A j \in q..(t - 1) : s[j] # "/"
        /\ DollarAt(s, t)}

\* [.\d]: the unescaped dot of "10." is outside the class and matches any
\* character but a newline; inside the class the dot is literal.
InPrefixClass(c) == c = "." \/ c \in Digits

AnyChar(c) == c # "\n"

\* (10.[.\d]+)/ from position p: the positions of the "/" that ends group 1.
PrefixSlashes(s, p) ==
    {e \in (p + 4)..Len(s) :
        /\ s[p] = "1"
        /\ s[p + 1] = "0"
        /\ AnyChar(s[p + 2])
        /\ \A j \in (p + 3)..(e - 1) : InPrefixClass(s[j])
        /\ s[e] = "/"
        /\ SuffixEnds(s, e + 1) # {}}

Max(S) == CHOOSE x \in S : \A y \in S : y <= x

NoMatch == [matched |-> FALSE, g1 |-> <<>>, g2 |-> <<>>]

\* The two groups, group 1 from p to the "/" at e, group 2 greedy after it.
Groups(s, p, e) ==
    [matched |-> TRUE,
     g1 |-> SubSeq(s, p, e - 1),
     g2 |-> SubSeq(s, e + 1, Max(SuffixEnds(s, e + 1)) - 1)]

\* Group 1 greedy: the last of the slashes that can end it.
GreedyGroups(s, p, slashes) ==
    IF slashes = {} THEN NoMatch ELSE Groups(s, p, Max(slashes))

\* (10.[.\d]+)/([^/]+)$ from position p, both quantifiers greedy.
MatchTail(s, p) ==
    IF p = 0 THEN NoMatch ELSE GreedyGroups(s, p, PrefixSlashes(s, p))

\* The first match wins.
OrElse(m, other) == IF m.matched THEN m ELSE other

\* The tail of the pattern after the k-th way to match the lead-in, or after
\* a later one when that fails.
RECURSIVE MatchFrom(_, _, _)
MatchFrom(s, ends, k) ==
    IF k > Len(ends) THEN NoMatch
    ELSE OrElse(MatchTail(s, ends[k]), MatchFrom(s, ends, k + 1))

\* re.match(r'(?:doi:|https?://(?:dx\.)?doi\.org/)?(10.[.\d]+)/([^/]+)$', doi)
re_match(doi) == MatchFrom(doi, LeadInEnds(doi), 1)

\* The body of the url setter after re.match.
DOI_set(doi, doi_match) ==
    IF doi_match.matched
    THEN [ok |-> TRUE, prefix |-> doi_match.g1, suffix |-> doi_match.g2,
          err |-> NoErr]
    ELSE [ok |-> FALSE, prefix |-> <<>>, suffix |-> <<>>,
          err |-> ValueError("is not a valid DOI URL", doi)]

\* DOI.__init__ and the url setter: the object, or the exception raised.
DOI(doi) == DOI_set(doi, re_match(doi))

\* The full getter: f'{self.prefix}/{self.suffix}'
DOI_full(self) == self.prefix \o <<"/">> \o self.suffix

\* A url getter that leaves out the scheme.
DOI_url_noscheme(self) ==
    LitDoiOrgSlash \o self.prefix \o <<"/">> \o self.suffix

\* The url getter: f'https://doi.org/{self.prefix}/{self.suffix}'
DOI_url(self) == LitHttpsDoiOrg \o self.prefix \o <<"/">> \o self.suffix

----------------------------------------------------------------------------
(* Values returned or exceptions raised *)

Ok(v) == [raised |-> FALSE, err |-> NoErr, val |-> v]

Raise(e) == [raised |-> TRUE, err |-> e, val |-> <<>>]

\* unwrap(value, msg)
unwrap(value, msg) == IF value = None THEN Raise(msg) ELSE Ok(value)

----------------------------------------------------------------------------
(* Integers and their decimal text *)

DigitChars == <<"0", "1", "2", "3", "4", "5", "6", "7", "8", "9">>

DigitValue(c) == (CHOOSE k \in 1..10 : DigitChars[k] = c) - 1

RECURSIVE DigitsValue(_)
DigitsValue(s) ==
    IF s = <<>> THEN 0
    ELSE 10 * DigitsValue(SubSeq(s, 1, Len(s) - 1)) + DigitValue(s[Len(s)])

Signed(s) == s # <<>> /\ Head(s) \in {"-", "+"}

IntOfBody(s, body) ==
    IF body = <<>> \/ \E j \in 1..Len(body) : body[j] \notin Digits
    THEN Raise(ValueError("invalid literal for int() with base 10", s))
    ELSE Ok(IF Signed(s) /\ Head(s) = "-"
            THEN 0 - DigitsValue(body)
            ELSE DigitsValue(body))

\* int(text): an optional sign and one or more decimal digits.
int(s) == IntOfBody(s, IF Signed(s) THEN Tail(s) ELSE s)

RECURSIVE NatToStr(_)
NatToStr(n) ==
    IF n < 10 THEN <<DigitChars[n + 1]>>
    ELSE NatToStr(n \div 10) \o <<DigitChars[(n % 10) + 1]>>

\* f'{n}'
IntToStr(n) == IF n < 0 THEN <<"-">> \o NatToStr(0 - n) ELSE NatToStr(n)

RECURSIVE ZeroPad(_, _)
ZeroPad(s, width) == IF Len(s) >= width THEN s ELSE ZeroPad(<<"0">> \o s, width)

\* f'{n:0w}' for n >= 0
IntToStrPadded(n, width) == ZeroPad(IntToStr(n), width)

----------------------------------------------------------------------------
(* Configuration *)

PROCEEDING_PREFIX == <<"p","p","o","p","p","2","3","-","p">>

\* f'{PROCEEDING_PREFIX}#', the name of the tracking-number column
TrackingColumn == "ppopp23-p#"

DATE_ISSUED == <<2023, 1, 6>>

----------------------------------------------------------------------------
(* create_zenodo_xml *)

LitArtseq == <<"a","r","t","s","e","q","-">>
LitArtifactDoeClass == <<"/","a","r","t","i","f","a","c","t","-","d","o","e","-","c","l","a","s","s">>

BadgeAvailable == <<"#","a","c","m",":","a","r","t","i","f","a","c","t","s","-","a","v","a","i","l","a","b","l","e">>
BadgeFunctional == <<"#","a","c","m",":","a","r","t","i","f","a","c","t","s","-","f","u","n","c","t","i","o","n","a","l">>
BadgeReusable == <<"#","a","c","m",":","a","r","t","i","f","a","c","t","s","-","r","e","u","s","a","b","l","e">>
BadgeReplicated == <<"#","a","c","m",":","r","e","s","u","l","t","s","-","r","e","p","l","i","c","a","t","e","d">>
BadgeReproduced == <<"#","a","c","m",":","r","e","s","u","l","t","s","-","r","e","p","r","o","d","u","c","e","d">>

\* ' '.join(i for i in parts if i != '')
RECURSIVE join_nonempty(_)
join_nonempty(parts) ==
    IF Len(parts) = 0 THEN <<>>
    ELSE LET h == Head(parts)
             r == join_nonempty(Tail(parts))
         IN  IF h = <<>> THEN r
             ELSE IF r = <<>> THEN h
             ELSE h \o <<" ">> \o r

\* The child elements of an author read after sequence_no, in the order
\* the loop body reads them.
AuthorElements ==
    <<"prefix", "first_name", "middle_name", "last_name", "suffix",
      "email_address", "ORCID", "institution">>

AuthorElementPath(name) ==
    IF name = "institution"
    THEN "/erights_record/paper/authors/author/affiliations/affiliation/institution"
    ELSE "/erights_record/paper/authors/author/" \o name

MissingElements(author) ==
    {k \in 1..Len(AuthorElements) : author[AuthorElements[k]] = None}

\* The mods:name block of one author, from the stripped texts of its
\* elements.
name_block(author_seq, prefix, first_name, middle_name, last_name, suffix, email, orcid, affiliation) ==
    [ID             |-> LitArtseq \o IntToStr(author_seq - 1),
     given          |-> join_nonempty(<<first_name, middle_name>>),
     family         |-> last_name,
     termsOfAddress |-> <<>>,
     displayForm    |-> join_nonempty(<<prefix, first_name, middle_name,
                                        last_name, suffix>>),
     ORCID          |-> orcid,
     roleTerm       |-> "Contributor",
     email          |-> email,
     affiliation    |-> affiliation]

author_block(author, author_seq) ==
    name_block(author_seq, strip(author.prefix), strip(author.first_name),
               strip(author.middle_name), strip(author.last_name),
               strip(author.suffix), strip(author.email_address),
               strip(author.ORCID), strip(author.institution))

Min(S) == CHOOSE x \in S : \A y \in S : x <= y

\* The elements read after the two assertions: the first one missing
\* raises, otherwise the block is appended.
author_elements(author, author_seq, missing) ==
    IF missing # {}
    THEN Raise(ValueError("is missing in XML",
                          AuthorElementPath(AuthorElements[Min(missing)])))
    ELSE Ok([seq |-> author_seq, block |-> author_block(author, author_seq)])

\* The two assertions on the sequence number, then the rest of the body.
author_checked(author, author_seqs, author_seq) ==
    IF author_seq.raised THEN author_seq
    ELSE IF ~(author_seq.val > 0)
    THEN Raise(AssertionError("author_seq > 0"))
    ELSE IF author_seq.val \in author_seqs
    THEN Raise(AssertionError("author_seq not in author_seqs"))
    ELSE author_elements(author, author_seq.val, MissingElements(author))

author_seq_of(author, author_seqs, seq_el) ==
    IF seq_el.raised THEN seq_el
    ELSE author_checked(author, author_seqs, int(strip(seq_el.val)))

\* One pass of the body of "for author in ...": the sequence number and the
\* block appended, or the exception raised.
author_step(author, author_seqs) ==
    author_seq_of(author, author_seqs,
        unwrap(author.sequence_no,
               ValueError("is missing in XML",
                          "/erights_record/paper/authors/author/sequence_no")))

\* for author in toc_paper.select(':scope > authors > author'): document
\* order, one block appended per author.
RECURSIVE authors_loop(_, _, _)
authors_after(authors, author_seqs, blocks, r) ==
    IF r.raised THEN r
    ELSE authors_loop(Tail(authors), author_seqs \cup {r.val.seq},
                      Append(blocks, r.val.block))

authors_loop(authors, author_seqs, blocks) ==
    IF Len(authors) = 0 THEN Ok(blocks)
    ELSE authors_after(authors, author_seqs, blocks,
                       author_step(Head(authors), author_seqs))

BadgeColumns ==
    <<"Available", "Functional", "Reusable", "Replicated", "Reproduced", "Best">>

BadgeTable ==
    << [csv_id |-> BadgeAvailable, xml_id |-> "artifacts_available_v101",
        xml_desc |-> "Artifacts Available"],
       [csv_id |-> BadgeFunctional, xml_id |-> "artifacts_evaluated_functional_v101",
        xml_desc |-> "Artifacts Evaluated - Functional"],
       [csv_id |-> BadgeReusable, xml_id |-> "artifacts_evaluated_reusable_v101",
        xml_desc |-> "Artifacts Evaluated - Reusable"],
       [csv_id |-> BadgeReplicated, xml_id |-> "results_replicated_v101",
        xml_desc |-> "Results Replicated"],
       [csv_id |-> BadgeReproduced, xml_id |-> "results_reproduced_v101",
        xml_desc |-> "Results Reproduced"] >>

MissingBadgeColumns(arti_row) ==
    {k \in 1..Len(BadgeColumns) : arti_row[BadgeColumns[k]] = None}

\* The set comprehension with the cells left as they are.
badge_values_nostrip(arti_row) ==
    IF MissingBadgeColumns(arti_row) # {}
    THEN Raise(ValueError("is missing in CSV",
                          BadgeColumns[Min(MissingBadgeColumns(arti_row))]))
    ELSE Ok({arti_row[BadgeColumns[k]] : k \in 1..Len(BadgeColumns)} \ {<<>>})

\* badges = {value for column in [...] for value in [unwrap(...).strip()]
\*           if value != ''}
badge_values(arti_row) ==
    IF MissingBadgeColumns(arti_row) # {}
    THEN Raise(ValueError("is missing in CSV",
                          BadgeColumns[Min(MissingBadgeColumns(arti_row))]))
    ELSE Ok({strip(arti_row[BadgeColumns[k]]) : k \in 1..Len(BadgeColumns)}
            \ {<<>>})

\* for csv_id, xml_id, xml_desc in [...]: if csv_id in badges: one topic;
\* the entries of the table from the k-th on.
RECURSIVE badge_topics(_, _)
badge_topics(badges, k) ==
    IF k > Len(BadgeTable) THEN <<>>
    ELSE (IF BadgeTable[k].csv_id \in badges
          THEN <<[authority |-> BadgeTable[k].xml_id,
                  text |-> BadgeTable[k].xml_desc]>>
          ELSE <<>>)
         \o badge_topics(badges, k + 1)

\* A DOI object, or the exception its constructor raised.
Constructed(d) == IF d.ok THEN Ok(d) ELSE Raise(d.err)

doi_of_cell(cell) ==
    IF cell.raised THEN cell ELSE Constructed(DOI(strip(cell.val)))

\* DOI(unwrap(arti_row.get(column), ...).strip())
doi_of_column(arti_row, column) ==
    doi_of_cell(unwrap(arti_row[column], ValueError("is missing in CSV", column)))

\* The related article read from the artifact's column.
related_doi_from_url(arti_row) == doi_of_column(arti_row, "Available URL")

\* doi = DOI(unwrap(arti_row.get('DOI'), ...).strip())
related_doi(arti_row) == doi_of_column(arti_row, "DOI")

\* The identifier leaf given the url rendering.
identifier_text_url(arti_doi) == DOI_url(arti_doi)

\* The text of mods:identifier: arti_doi.full
identifier_text(arti_doi) == DOI_full(arti_doi)

\* f'{DATE_ISSUED[0]}-{DATE_ISSUED[1]:02}-{DATE_ISSUED[2]:02}'
date_issued_text ==
    IntToStr(DATE_ISSUED[1]) \o <<"-">> \o IntToStrPadded(DATE_ISSUED[2], 2)
        \o <<"-">> \o IntToStrPadded(DATE_ISSUED[3], 2)

\* create_zenodo_xml(toc_paper, arti_row): the leaves of the document that
\* are not constant text, or the exception raised.
zenodo_doc(arti_doi, title, names, badges, doi) ==
    IF arti_doi.raised THEN arti_doi
    ELSE IF title.raised THEN title
    ELSE IF names.raised THEN names
    ELSE IF badges.raised THEN badges
    ELSE IF doi.raised THEN doi
    ELSE Ok([identifier  |-> identifier_text(arti_doi.val),
             title       |-> strip(title.val),
             subTitle    |-> <<>>,
             names       |-> names.val,
             type_topic  |-> "software",
             badges      |-> badge_topics(badges.val, 1),
             relatedHref |-> DOI_full(doi.val),
             baseDoi     |-> arti_doi.val.prefix \o LitArtifactDoeClass,
             dateIssued  |-> date_issued_text])

create_zenodo_xml(toc_paper, arti_row) ==
    zenodo_doc(doi_of_column(arti_row, "Available URL"),
               unwrap(toc_paper.paper_title,
                      ValueError("is missing in XML",
                                 "/erights_record/paper/paper_title")),
               authors_loop(toc_paper.authors, {}, <<>>),
               badge_values(arti_row),
               related_doi(arti_row))

----------------------------------------------------------------------------
(* Idle values of the variables a specification does not use *)

NoDOI == [ok |-> FALSE, prefix |-> <<>>, suffix |-> <<>>, err |-> NoErr]

IdleD ==
    /\ din = <<>>
    /\ dobj = NoDOI
    /\ drendered = <<>>
    /\ dobj2 = NoDOI
    /\ dpc = "idle"

IdleZ ==
    /\ zin = <<>>
    /\ zout = <<>>
    /\ zpc = "idle"

IdleP ==
    /\ pxml = <<>>
    /\ ptext = <<>>
    /\ pout = <<>>
    /\ pout2 = <<>>
    /\ ppc = "idle"

IdleRun == [pc |-> "idle"]

IdleMain ==
    /\ inputs = <<>>
    /\ runA = IdleRun
    /\ runB = IdleRun

----------------------------------------------------------------------------
(* The DOI class on its own: construct, render, construct again *)

MaxRest == 5

DoiLeads ==
    { <<>>,
      LitDoiColon,
      LitHttpsDoiOrg,
      LitHttp \o LitColonSlashSlash \o LitDoiOrgSlash,
      LitHttp \o LitS \o LitColonSlashSlash \o LitDxDot \o LitDoiOrgSlash,
      LitHttp \o LitColonSlashSlash \o LitDxDot \o LitDoiOrgSlash,
      <<"f","t","p">> \o LitColonSlashSlash \o LitDoiOrgSlash,
      <<"D","O","I",":">> }

DoiHeads == { <<"1","0">>, <<"a","1","0">>, <<"1">>, <<>> }

DoiRestAlphabet == {"1", ".", "/", "a"}

DoiStrings ==
    {lead \o head \o rest :
        lead \in DoiLeads, head \in DoiHeads,
        rest \in SeqsUpTo(DoiRestAlphabet, MaxRest)}

InitDOI ==
    /\ din \in DoiStrings
    /\ dobj = NoDOI
    /\ drendered = <<>>
    /\ dobj2 = NoDOI
    /\ dpc = "new"
    /\ IdleZ
    /\ IdleMain
    /\ IdleP

DoiConstruct ==
    /\ dpc = "new"
    /\ dobj' = DOI(din)
    /\ dpc' = IF dobj'.ok THEN "parsed" ELSE "rejected"
    /\ UNCHANGED <<din, drendered, dobj2, zin, zout, zpc, inputs, runA, runB, pvars>>

DoiRenderFull ==
    /\ dpc = "parsed"
    /\ drendered' = DOI_full(dobj)
    /\ dpc' = "rendered"
    /\ UNCHANGED <<din, dobj, dobj2, zin, zout, zpc, inputs, runA, runB, pvars>>

DoiRenderUrl ==
    /\ dpc = "parsed"
    /\ drendered' = DOI_url(dobj)
    /\ dpc' = "rendered"
    /\ UNCHANGED <<din, dobj, dobj2, zin, zout, zpc, inputs, runA, runB, pvars>>

DoiReparse ==
    /\ dpc = "rendered"
    /\ dobj2' = DOI(drendered)
    /\ dpc' = "reparsed"
    /\ UNCHANGED <<din, dobj, drendered, zin, zout, zpc, inputs, runA, runB, pvars>>

NextDOI == DoiConstruct \/ DoiRenderFull \/ DoiRenderUrl \/ DoiReparse

SpecDOI == InitDOI /\ [][NextDOI]_vars

----------------------------------------------------------------------------
(* Sample inputs: one table row and one paper record *)

Columns ==
    {TrackingColumn, "Title", "Available URL", "DOI"}
        \cup {BadgeColumns[k] : k \in 1..Len(BadgeColumns)}

\* A row of csv.DictReader: a cell per column, None for a column that the
\* header or the row does not have.
Row(key, title, url, doi, badges) ==
    [c \in Columns |->
        IF c = TrackingColumn THEN key
        ELSE IF c = "Title" THEN title
        ELSE IF c = "Available URL" THEN url
        ELSE IF c = "DOI" THEN doi
        ELSE badges[c]]

Author(sequence_no, last_name) ==
    [sequence_no   |-> sequence_no,
     prefix        |-> <<>>,
     first_name    |-> <<"A","n","a">>,
     middle_name   |-> <<>>,
     last_name     |-> last_name,
     suffix        |-> <<>>,
     email_address |-> <<"a","@","b">>,
     ORCID         |-> <<"0","0","0","0","-","0","0","0","1">>,
     institution   |-> <<"U">>]

Paper(event_tracking_number, paper_title, authors) ==
    [event_tracking_number |-> event_tracking_number,
     paper_title           |-> paper_title,
     authors               |-> authors]

TitleFastCaches == <<"F","a","s","t"," ","C","a","c","h","e","s">>

BadgeBest == <<"#","a","c","m",":","b","e","s","t","-","a","r","t","i","f","a","c","t">>

SampleBadges ==
    [c \in {BadgeColumns[k] : k \in 1..Len(BadgeColumns)} |->
        IF c = "Available" THEN BadgeAvailable
        ELSE IF c = "Functional" THEN BadgeFunctional
        ELSE <<>>]

SampleUrl == LitHttpsDoiOrg \o <<"1","0",".","1","/","z",".","9">>

SampleDoi == <<"1","0",".","1","/","3","4">>

SampleRow ==
    Row(<<"4","2">>, TitleFastCaches, SampleUrl, SampleDoi, SampleBadges)

SamplePaper ==
    Paper(PROCEEDING_PREFIX \o <<"4","2">>, TitleFastCaches,
          <<Author(<<"1">>, <<"L","e","e">>)>>)

----------------------------------------------------------------------------
(* create_manifest_xml *)

LitArtifactsGroup == <<"/","a","r","t","i","f","a","c","t","s","-","g","r","o","u","p">>

\* The attributes and leaves of the manifest that the function sets.
create_manifest_xml(arti_doi) ==
    [group_doi       |-> arti_doi.prefix \o LitArtifactsGroup,
     submission_type |-> "full",
     email           |-> "CALLBACK_EMAIL",
     make_live       |-> "no-fatals"]

----------------------------------------------------------------------------
(* main: the archive of one row *)

PATH_OUTPUT == <<"a","r","t","i","f","a","c","t","s","-","m","e","t","a","d","a","t","a">>

LitArtifacts == <<"a","r","t","i","f","a","c","t","s","_">>
LitZip == <<".","z","i","p">>
LitManifest == <<"m","a","n","i","f","e","s","t",".","x","m","l">>
LitMeta == <<"/","m","e","t","a","/">>
LitXml == <<".","x","m","l">>
Unavailable == <<"U","n","a","v","a","i","l","a","b","l","e">>

\* os.path.join(PATH_OUTPUT, f'artifacts_{suffix}_{Y:04}{M:02}{D:02}.zip')
zip_path_of(arti_doi) ==
    PATH_OUTPUT \o <<"/">> \o LitArtifacts \o arti_doi.suffix \o <<"_">>
        \o IntToStrPadded(DATE_ISSUED[1], 4) \o IntToStrPadded(DATE_ISSUED[2], 2)
        \o IntToStrPadded(DATE_ISSUED[3], 2) \o LitZip

\* A timestamp taken from the clock of the run.
zip_date_now(clock) == <<DATE_ISSUED[1], DATE_ISSUED[2], DATE_ISSUED[3], 0, 0, clock>>

\* zip_date = (DATE_ISSUED[0], DATE_ISSUED[1], DATE_ISSUED[2], 0, 0, 0),
\* whatever the clock of the run says.
zip_date(clock) == <<DATE_ISSUED[1], DATE_ISSUED[2], DATE_ISSUED[3], 0, 0, 0>>

\* The bytes written for a document: a function of the tree alone.
my_prettify(xml) == [utf8 |-> xml]

\* A directory entry: mode drwxr-xr-x with the MS-DOS directory bit, no
\* content, CRC 0.
zip_dir(path, date_time) ==
    [filename      |-> path,
     date_time     |-> date_time,
     compress_type |-> "ZIP_DEFLATED",
     compresslevel |-> 9,
     create_system |-> 3,
     external_attr |-> (16877 * 65536) + 16,
     CRC           |-> 0,
     data          |-> <<>>]

\* A file entry: mode -rw-r--r--.
zip_file(path, date_time, data) ==
    [filename      |-> path,
     date_time     |-> date_time,
     compress_type |-> "ZIP_DEFLATED",
     compresslevel |-> 9,
     create_system |-> 3,
     external_attr |-> 420 * 65536,
     CRC           |-> "crc32",
     data          |-> data]

\* The four entries written to the archive, in the order of the list.
zip_entries(arti_doi, manifest_xml, zenodo_xml, clock) ==
    << zip_file(LitManifest, zip_date(clock), my_prettify(manifest_xml)),
       zip_dir(arti_doi.suffix \o <<"/">>, zip_date(clock)),
       zip_dir(arti_doi.suffix \o LitMeta, zip_date(clock)),
       zip_file(arti_doi.suffix \o LitMeta \o arti_doi.suffix \o LitXml,
                zip_date(clock), my_prettify(zenodo_xml)) >>

----------------------------------------------------------------------------
(* main: the output directory *)

\* The directory is a function from the paths of its files to their
\* content.
os_remove(fs, path) == [p \in (DOMAIN fs) \ {path} |-> fs[p]]

\* zipfile.ZipFile(path, 'w'): the file is created or truncated, then the
\* entries are written.
ZipFile_w(fs, path, entries) ==
    [p \in (DOMAIN fs) \cup {path} |-> IF p = path THEN entries ELSE fs[p]]

----------------------------------------------------------------------------
(* main: what one row leads to *)

\* An exception caught and the row left out.
RaisedAndSwallowed(err, stdout) ==
    [kind |-> "skip", err |-> NoErr, stdout |-> stdout,
     zip_path |-> <<>>, arti_doi |-> NoDOI, manifest_xml |-> <<>>,
     zenodo_xml |-> <<>>]

\* An exception leaves main: the run is over.
Raised(err, stdout) ==
    [kind |-> "fatal", err |-> err, stdout |-> stdout,
     zip_path |-> <<>>, arti_doi |-> NoDOI, manifest_xml |-> <<>>,
     zenodo_xml |-> <<>>]

\* print(f'(Info: Skipping #{tracking_number}.)'); continue
Skipped(stdout, tracking_number) ==
    [kind |-> "skip", err |-> NoErr,
     stdout |-> Append(stdout, [text |-> "(Info: Skipping)", n |-> tracking_number]),
     zip_path |-> <<>>, arti_doi |-> NoDOI, manifest_xml |-> <<>>,
     zenodo_xml |-> <<>>]

Archived(stdout, arti_doi, manifest_xml, zenodo_xml) ==
    [kind |-> "archive", err |-> NoErr, stdout |-> stdout,
     zip_path |-> zip_path_of(arti_doi), arti_doi |-> arti_doi,
     manifest_xml |-> manifest_xml, zenodo_xml |-> zenodo_xml]

\* Lines 66-70: one line when the titles agree, two when they differ.
title_lines(tracking_number, toc_title, csv_title) ==
    IF toc_title = csv_title
    THEN << [text |-> "title", n |-> tracking_number] >>
    ELSE << [text |-> "title (XML)", n |-> tracking_number],
            [text |-> "title (CSV)", n |-> tracking_number] >>

\* Lines 88-89, then the archive.
after_docs(stdout, arti_doi, manifest_xml, zenodo_xml) ==
    IF zenodo_xml.raised THEN Raised(zenodo_xml.err, stdout)
    ELSE Archived(stdout, arti_doi, manifest_xml, zenodo_xml.val)

\* Lines 83-86.
after_arti_doi(toc_paper, arti_row, stdout, arti_doi, doi) ==
    IF doi.raised THEN Raised(doi.err, stdout)
    ELSE after_docs(stdout, arti_doi, create_manifest_xml(arti_doi),
                    create_zenodo_xml(toc_paper, arti_row))

\* Line 80.
after_available(toc_paper, arti_row, stdout, arti_doi) ==
    IF ~arti_doi.ok THEN Raised(arti_doi.err, stdout)
    ELSE after_arti_doi(toc_paper, arti_row, stdout, arti_doi,
                        doi_of_column(arti_row, "DOI"))

\* Lines 73-79.
after_titles(toc_paper, arti_row, tracking_number, stdout, arti_url) ==
    IF arti_url.raised THEN Raised(arti_url.err, stdout)
    ELSE IF strip(arti_url.val) = Unavailable
    THEN Skipped(stdout, tracking_number)
    ELSE after_available(toc_paper, arti_row, stdout, DOI(strip(arti_url.val)))

\* Lines 62-70.
after_lookup(toc_paper, arti_row, tracking_number, csv_title, toc_title) ==
    IF toc_title.raised THEN Raised(toc_title.err, <<>>)
    ELSE after_titles(toc_paper, arti_row, tracking_number,
            title_lines(tracking_number, strip(toc_title.val), csv_title),
            unwrap(arti_row["Available URL"],
                   ValueError("is missing in CSV", "Available URL")))

\* Lines 54-61: toc_papers.get(f'{PROCEEDING_PREFIX}{tracking_number}')
after_tracking(toc_papers, arti_row, tracking_number, csv_title) ==
    IF csv_title.raised THEN Raised(csv_title.err, <<>>)
    ELSE IF (PROCEEDING_PREFIX \o tracking_number) \notin DOMAIN toc_papers
    THEN Raised(ValueError("Tracking number is missing in XML", tracking_number),
                <<>>)
    ELSE after_lookup(toc_papers[PROCEEDING_PREFIX \o tracking_number],
            arti_row, tracking_number, strip(csv_title.val),
            unwrap(toc_papers[PROCEEDING_PREFIX \o tracking_number].paper_title,
                   ValueError("is missing in XML",
                              "/erights_record/paper/paper_title")))

\* Lines 48-57.
with_tracking(toc_papers, arti_row, tracking_number) ==
    IF tracking_number.raised THEN Raised(tracking_number.err, <<>>)
    ELSE after_tracking(toc_papers, arti_row, strip(tracking_number.val),
            unwrap(arti_row["Title"], ValueError("is missing in CSV", "Title")))

\* The body of "for arti_row in arti_csv" up to the archive: fatal, skip or
\* the path and the documents of the archive.
row_outcome(toc_papers, arti_row) ==
    with_tracking(toc_papers, arti_row,
        unwrap(arti_row[TrackingColumn],
               ValueError("is missing in CSV", TrackingColumn)))

----------------------------------------------------------------------------
(* main: one run *)

\* all(i == '' for i in row.values())
IsEmptyRow(arti_row) == \A c \in Columns : arti_row[c] = <<>>

\* while len(arti_csv) != 0 and all(...): del arti_csv[-1]
RECURSIVE drop_trailing_empty(_)
drop_trailing_empty(arti_csv) ==
    IF Len(arti_csv) # 0 /\ IsEmptyRow(arti_csv[Len(arti_csv)])
    THEN drop_trailing_empty(SubSeq(arti_csv, 1, Len(arti_csv) - 1))
    ELSE arti_csv

\* The papers selected by 'erights_record:scope > paper:has(>
\* event_tracking_number)', by position in the document.
SelectedPapers(toc_xml) ==
    {i \in 1..Len(toc_xml) : toc_xml[i].event_tracking_number # None}

\* The dict comprehension of lines 39-45: a later paper with the same key
\* replaces an earlier one.
build_toc_papers(toc_xml) ==
    [key \in {strip(toc_xml[i].event_tracking_number) : i \in SelectedPapers(toc_xml)}
        |-> toc_xml[Max({i \in SelectedPapers(toc_xml) :
                            strip(toc_xml[i].event_tracking_number) = key})]]

\* A run before its first statement, with the output directory as found.
Started(fs, clock) ==
    [pc |-> "start", arti_csv |-> <<>>, toc_papers |-> <<>>, row_i |-> 1,
     fs |-> fs, fs_prev |-> fs, clock |-> clock, stdout |-> <<>>,
     log |-> <<>>, err |-> NoErr]

\* Lines 28-45.
loaded(run, inp) ==
    [run EXCEPT !.pc = "loop",
                !.arti_csv = drop_trailing_empty(inp.csv_rows),
                !.toc_papers = build_toc_papers(inp.toc_xml),
                !.clock = @ + 1]

\* The end of one pass of the loop: the exception leaves main, or the row
\* is skipped, or lines 91-117 replace the archive at its path.
row_done(run, o) ==
    IF o.kind = "fatal"
    THEN [run EXCEPT !.pc = "fatal", !.err = o.err, !.fs_prev = run.fs,
                     !.stdout = @ \o o.stdout, !.clock = @ + 1]
    ELSE IF o.kind = "skip"
    THEN [run EXCEPT !.row_i = @ + 1, !.fs_prev = run.fs,
                     !.stdout = @ \o o.stdout, !.clock = @ + 1,
                     !.log = Append(@, [kind |-> "skip", zip_path |-> <<>>])]
    ELSE [run EXCEPT !.row_i = @ + 1, !.fs_prev = run.fs,
                     !.stdout = @ \o o.stdout, !.clock = @ + 1,
                     !.log = Append(@, [kind |-> "archive", zip_path |-> o.zip_path]),
                     !.fs = ZipFile_w(os_remove(run.fs, o.zip_path), o.zip_path,
                                zip_entries(o.arti_doi, o.manifest_xml,
                                            o.zenodo_xml, run.clock))]

\* One pass of "for arti_row in arti_csv".
row_step(run) ==
    row_done(run, row_outcome(run.toc_papers, run.arti_csv[run.row_i]))

----------------------------------------------------------------------------
(* create_zenodo_xml on its own *)

ZCall(toc_paper, arti_row) == [toc_paper |-> toc_paper, arti_row |-> arti_row]

ZReturn ==
    /\ zpc = "call"
    /\ zout' = create_zenodo_xml(zin.toc_paper, zin.arti_row)
    /\ ~zout'.raised
    /\ zpc' = "returned"
    /\ UNCHANGED <<din, dobj, drendered, dobj2, dpc, zin, inputs, runA, runB, pvars>>

ZRaise ==
    /\ zpc = "call"
    /\ zout' = create_zenodo_xml(zin.toc_paper, zin.arti_row)
    /\ zout'.raised
    /\ zpc' = "raised"
    /\ UNCHANGED <<din, dobj, drendered, dobj2, dpc, zin, inputs, runA, runB, pvars>>

NextZ == ZReturn \/ ZRaise

InitZ(calls) ==
    /\ zin \in calls
    /\ zout = <<>>
    /\ zpc = "call"
    /\ IdleD
    /\ IdleMain
    /\ IdleP

(* ... over the author lists of the paper record *)

MaxAuthors == 3
MaxSeq == 3

SeqNoCells ==
    {<<DigitChars[n + 1]>> : n \in 0..MaxSeq} \cup {<<" ", "2">>, None}

AuthorSet ==
    {Author(c, <<"L","e","e">>) : c \in SeqNoCells}
        \cup {[Author(<<"1">>, <<"W","u">>) EXCEPT !.ORCID = None]}

InitAuthors ==
    InitZ({ZCall(Paper(PROCEEDING_PREFIX \o <<"4","2">>, TitleFastCaches, authors),
                 SampleRow) :
            authors \in SeqsUpTo(AuthorSet, MaxAuthors)})

SpecAuthors == InitAuthors /\ [][NextZ]_vars

(* ... over the badge columns of the row *)

BadgeCells ==
    { <<>>, <<" ">>, BadgeAvailable, <<" ">> \o BadgeFunctional \o <<" ">>,
      BadgeBest, None }

InitBadges ==
    InitZ({ZCall(SamplePaper,
                 Row(<<"4","2">>, TitleFastCaches, SampleUrl, SampleDoi, badges)) :
            badges \in [{BadgeColumns[k] : k \in 1..Len(BadgeColumns)} -> BadgeCells]})

SpecBadges == InitBadges /\ [][NextZ]_vars

(* ... over the two identifier columns of the row *)

IdLeads ==
    { <<>>,
      LitDoiColon,
      LitHttpsDoiOrg,
      LitHttp \o LitColonSlashSlash \o LitDxDot \o LitDoiOrgSlash }

IdBodies ==
    { <<"1","0",".","1","/","a">>,
      <<"1","0",".","1","/","b">>,
      <<"1","0",".","2","2","/","a">> }

IdCells ==
    {lead \o body : lead \in IdLeads, body \in IdBodies}
        \cup { <<" ">> \o LitDoiColon \o <<"1","0",".","1","/","c"," ">>,
               <<"1","0","/","a">>,
               None }

InitIds ==
    InitZ({ZCall(SamplePaper,
                 Row(<<"4","2">>, TitleFastCaches, url, doi, SampleBadges)) :
            url \in IdCells, doi \in IdCells})

SpecIds == InitIds /\ [][NextZ]_vars

----------------------------------------------------------------------------
(* A run of main over a table and a list of paper records *)

MaxRows == 2

K1 == <<"1">>
K2 == <<"2">>
K3 == <<"3">>

UrlA == <<"1","0",".","1","/","a">>
UrlA2 == LitHttpsDoiOrg \o <<"1","0",".","2","2","/","a">>
UrlB == LitDoiColon \o <<"1","0",".","1","/","b">>
UrlBad == <<"1","0","/","a">>

RowA == Row(K1, TitleFastCaches, UrlA, SampleDoi, SampleBadges)
RowA2 == Row(K2, TitleFastCaches, UrlA2, SampleDoi, SampleBadges)
RowB == Row(K2, TitleFastCaches, UrlB, SampleDoi, SampleBadges)
RowB1 == Row(K1, TitleFastCaches, UrlB, SampleDoi, SampleBadges)
RowSkip == Row(K1, <<"X">>, Unavailable \o <<" ">>, SampleDoi, SampleBadges)
EmptyRow == [c \in Columns |-> <<>>]

GoodRows == {RowA, RowA2, RowB, RowB1, RowSkip}

FaultyRows ==
    { [RowB EXCEPT ![TrackingColumn] = None],
      [RowB EXCEPT ![TrackingColumn] = K3],
      [RowB EXCEPT !["Title"] = None],
      [RowB EXCEPT !["Available URL"] = None],
      [RowB EXCEPT !["Available URL"] = UrlBad],
      [RowB EXCEPT !["DOI"] = None],
      [RowB EXCEPT !["DOI"] = UrlBad],
      [RowB EXCEPT !["Best"] = None],
      [RowSkip EXCEPT !["DOI"] = UrlBad],
      [RowSkip EXCEPT !["Best"] = None] }

RowSet == GoodRows \cup FaultyRows \cup {EmptyRow}

Lee == <<"L","e","e">>

P1 == Paper(PROCEEDING_PREFIX \o K1, TitleFastCaches, <<Author(<<"1">>, Lee)>>)
P1Other == Paper(PROCEEDING_PREFIX \o K1, <<"Y">>, <<Author(<<"1">>, <<"W","u">>)>>)
P2 ==
    Paper(<<" ">> \o PROCEEDING_PREFIX \o K2 \o <<" ">>, TitleFastCaches,
          <<Author(<<"2">>, Lee), Author(<<"1">>, <<"W","u">>)>>)
P2DupSeq ==
    Paper(PROCEEDING_PREFIX \o K2, TitleFastCaches,
          <<Author(<<"1">>, Lee), Author(<<"1">>, <<"W","u">>)>>)
P2ZeroSeq == Paper(PROCEEDING_PREFIX \o K2, TitleFastCaches, <<Author(<<"0">>, Lee)>>)
P2NoTitle == Paper(PROCEEDING_PREFIX \o K2, None, <<Author(<<"1">>, Lee)>>)
P2NoOrcid ==
    Paper(PROCEEDING_PREFIX \o K2, TitleFastCaches,
          <<[Author(<<"1">>, Lee) EXCEPT !.ORCID = None]>>)
PNoKey == Paper(None, TitleFastCaches, <<Author(<<"1">>, Lee)>>)

TocSet ==
    { <<P1, P2>>, <<P2, P1>>, <<P1, P1Other, P2>>, <<P1Other, P1, P2>>,
      <<P1, P2DupSeq>>, <<P1, P2ZeroSeq>>, <<P1, P2NoTitle>>,
      <<P1, P2NoOrcid>>, <<PNoKey, P1>> }

\* The output directory before the run: empty, or with a file of an earlier
\* run at the path of an archive.
StaleArchive == << [filename |-> <<"o","l","d">>] >>

FsSet ==
    { <<>>,
      ZipFile_w(<<>>, zip_path_of(DOI(UrlA)), StaleArchive) }

Inputs(csv_rows, toc_xml) == [csv_rows |-> csv_rows, toc_xml |-> toc_xml]

Init ==
    /\ inputs \in {Inputs(csv_rows, toc_xml) :
                        csv_rows \in SeqsUpTo(RowSet, MaxRows), toc_xml \in TocSet}
    /\ runA \in {Started(fs, 0) : fs \in FsSet}
    /\ runB = IdleRun
    /\ IdleD
    /\ IdleZ
    /\ IdleP

MainLoad ==
    /\ runA.pc = "start"
    /\ runA' = loaded(runA, inputs)
    /\ UNCHANGED <<din, dobj, drendered, dobj2, dpc, zin, zout, zpc, inputs, runB, pvars>>

MainRowArchive ==
    /\ runA.pc = "loop"
    /\ runA.row_i <= Len(runA.arti_csv)
    /\ runA' = row_step(runA)
    /\ runA'.pc = "loop"
    /\ runA'.log[Len(runA'.log)].kind = "archive"
    /\ UNCHANGED <<din, dobj, drendered, dobj2, dpc, zin, zout, zpc, inputs, runB, pvars>>

MainRowSkip ==
    /\ runA.pc = "loop"
    /\ runA.row_i <= Len(runA.arti_csv)
    /\ runA' = row_step(runA)
    /\ runA'.pc = "loop"
    /\ runA'.log[Len(runA'.log)].kind = "skip"
    /\ UNCHANGED <<din, dobj, drendered, dobj2, dpc, zin, zout, zpc, inputs, runB, pvars>>

MainRowFatal ==
    /\ runA.pc = "loop"
    /\ runA.row_i <= Len(runA.arti_csv)
    /\ runA' = row_step(runA)
    /\ runA'.pc = "fatal"
    /\ UNCHANGED <<din, dobj, drendered, dobj2, dpc, zin, zout, zpc, inputs, runB, pvars>>

MainDone ==
    /\ runA.pc = "loop"
    /\ runA.row_i > Len(runA.arti_csv)
    /\ runA' = [runA EXCEPT !.pc = "done"]
    /\ UNCHANGED <<din, dobj, drendered, dobj2, dpc, zin, zout, zpc, inputs, runB, pvars>>

Next == MainLoad \/ MainRowArchive \/ MainRowSkip \/ MainRowFatal \/ MainDone

Spec == Init /\ [][Next]_vars

----------------------------------------------------------------------------
(* Two runs of main over the same inputs *)

RowSet2 == {RowA, RowA2, RowB, RowSkip, [RowB EXCEPT !["DOI"] = UrlBad], EmptyRow}

TocSet2 == { <<P1, P2>>, <<P1, P1Other, P2>>, <<P1, P2NoOrcid>> }

InitTwoRuns ==
    /\ inputs \in {Inputs(csv_rows, toc_xml) :
                        csv_rows \in SeqsUpTo(RowSet2, MaxRows), toc_xml \in TocSet2}
    /\ runA \in {Started(fs, 0) : fs \in FsSet}
    /\ runB = IdleRun
    /\ IdleD
    /\ IdleZ
    /\ IdleP

Finished(run) == run.pc \in {"done", "fatal"}

\* The second run starts after the first, at any later time, on a directory
\* as the first left it or as somebody else did.
SecondStart ==
    /\ Finished(runA)
    /\ runB.pc = "idle"
    /\ \E fs \in FsSet \cup {runA.fs}, clock \in {0, runA.clock} :
           runB' = Started(fs, clock)
    /\ UNCHANGED <<din, dobj, drendered, dobj2, dpc, zin, zout, zpc, inputs, runA, pvars>>

SecondLoad ==
    /\ runB.pc = "start"
    /\ runB' = loaded(runB, inputs)
    /\ UNCHANGED <<din, dobj, drendered, dobj2, dpc, zin, zout, zpc, inputs, runA, pvars>>

SecondRow ==
    /\ runB.pc = "loop"
    /\ runB.row_i <= Len(runB.arti_csv)
    /\ runB' = row_step(runB)
    /\ UNCHANGED <<din, dobj, drendered, dobj2, dpc, zin, zout, zpc, inputs, runA, pvars>>

SecondDone ==
    /\ runB.pc = "loop"
    /\ runB.row_i > Len(runB.arti_csv)
    /\ runB' = [runB EXCEPT !.pc = "done"]
    /\ UNCHANGED <<din, dobj, drendered, dobj2, dpc, zin, zout, zpc, inputs, runA, pvars>>

NextTwoRuns == Next \/ SecondStart \/ SecondLoad \/ SecondRow \/ SecondDone

SpecTwoRuns == InitTwoRuns /\ [][NextTwoRuns]_vars

----------------------------------------------------------------------------
(* my_prettify: the indented text of a tree, and the substitution on it *)

(* A text is kept as the sequence of its lines, each line without the      *)
(* newline that ends it.  Every line of the pattern of my_prettify ends in *)
(* \n, ^ matches only where a line starts and no class of the pattern      *)
(* takes a \n, so that a match always covers two or three whole lines.     *)

Spaces(n) == [i \in 1..n |-> " "]

\* EntitySubstitution.substitute_xml, one character.
EntityOf(c) ==
    IF c = "&" THEN <<"&","a","m","p",";">>
    ELSE IF c = "<" THEN <<"&","l","t",";">>
    ELSE IF c = ">" THEN <<"&","g","t",";">>
    ELSE <<c>>

\* The formatter's substitution on text and on attribute values.
RECURSIVE substitute_xml(_)
substitute_xml(s) ==
    IF s = <<>> THEN <<>> ELSE EntityOf(Head(s)) \o substitute_xml(Tail(s))

NewlinesAt(s) == {i \in 1..Len(s) : s[i] = "\n"}

\* s cut at its newlines.
RECURSIVE splitlines(_)
splitlines(s) ==
    IF NewlinesAt(s) = {} THEN <<s>>
    ELSE <<SubSeq(s, 1, Min(NewlinesAt(s)) - 1)>>
            \o splitlines(SubSeq(s, Min(NewlinesAt(s)) + 1, Len(s)))

\* A piece put at its indentation: the spaces go before its first line only.
indent_string(piece, indent_level) ==
    <<Spaces(2 * indent_level) \o Head(splitlines(piece))>>
        \o Tail(splitlines(piece))

\* A text leaf and an element of a tree.
NavigableString(s) == [kind |-> "text", s |-> s, attrs |-> <<>>, contents |-> <<>>]

Tag(attrs, contents) == [kind |-> "tag", s |-> <<>>, attrs |-> attrs, contents |-> contents]

\* MyFormatter.attributes and their rendering: k="value" for every
\* attribute, the value substituted.
RECURSIVE format_attrs(_)
format_attrs(attrs) ==
    IF attrs = <<>> THEN <<>>
    ELSE <<" ", "k", "=", "\"">> \o substitute_xml(Head(attrs)) \o <<"\"">>
            \o format_attrs(Tail(attrs))

\* <a ...>, <a .../> and </a>
format_tag_open(tag) == <<"<", "a">> \o format_attrs(tag.attrs) \o <<">">>

format_tag_empty(tag) == <<"<", "a">> \o format_attrs(tag.attrs) \o <<"/", ">">>

format_tag_close == <<"<", "/", "a", ">">>

\* A text leaf: substituted, stripped, left out when nothing remains.
decode_text(piece, indent_level) ==
    IF piece = <<>> THEN <<>> ELSE indent_string(piece, indent_level)

\* Tag.decode with pretty printing: one piece per line, children one level
\* deeper, an element without contents as an empty-element tag.
RECURSIVE decode(_, _)
RECURSIVE decode_contents(_, _)
decode(node, indent_level) ==
    IF node.kind = "text"
    THEN decode_text(strip(substitute_xml(node.s)), indent_level)
    ELSE IF node.contents = <<>>
    THEN indent_string(format_tag_empty(node), indent_level)
    ELSE indent_string(format_tag_open(node), indent_level)
            \o decode_contents(node.contents, indent_level + 1)
            \o indent_string(format_tag_close, indent_level)

decode_contents(contents, indent_level) ==
    IF contents = <<>> THEN <<>>
    ELSE decode(Head(contents), indent_level)
            \o decode_contents(Tail(contents), indent_level)

XmlDeclaration == <<"<", "?", "x", "m", "l", "?", ">">>

Doctype == <<"<", "!", "D", "O", "C", "T", "Y", "P", "E", " ", "a", ">">>

\* xml.prettify(formatter=MyFormatter()): the declaration, the doctype when
\* the document has one, and the root element.
prettify(xml) ==
    <<XmlDeclaration>>
        \o (IF xml.doctype THEN <<Doctype>> ELSE <<>>)
        \o decode(xml.root, 0)

\* ( *) : the spaces a line starts with.
LeadingSpaces(line) ==
    Max({n \in 0..Len(line) : \A i \in 1..n : line[i] = " "})

\* ^( *)(<[^\n/].*)\n with \1 of length k
OpensAt(line, k) ==
    /\ Len(line) >= k + 2
    /\ line[k + 1] = "<"
    /\ line[k + 2] # "/"

\* Any text at all.
AnyText(s) == TRUE

\* [^\n<>]*
TextOnly(s) == \A i \in 1..Len(s) : s[i] \notin {"<", ">"}

\* \1  ([^\n<>]*)\n with \1 of length k
IsTextLine(line, k) ==
    /\ Len(line) >= k + 2
    /\ SubSeq(line, 1, k + 2) = Spaces(k + 2)
    /\ TextOnly(SubSeq(line, k + 3, Len(line)))

\* \1(</.*\n) with \1 of length k
ClosesAt(line, k) ==
    /\ Len(line) >= k + 2
    /\ SubSeq(line, 1, k) = Spaces(k)
    /\ line[k + 1] = "<"
    /\ line[k + 2] = "/"

\* The pattern matches at line i with its optional group.
MatchWithText(lines, i, k) ==
    /\ i + 2 <= Len(lines)
    /\ OpensAt(lines[i], k)
    /\ IsTextLine(lines[i + 1], k)
    /\ ClosesAt(lines[i + 2], k)

\* The pattern matches at line i without its optional group.
MatchWithoutText(lines, i, k) ==
    /\ i + 1 <= Len(lines)
    /\ OpensAt(lines[i], k)
    /\ ClosesAt(lines[i + 1], k)

\* r'\1\2\3\4'
Replacement(open, text, close, k) ==
    open \o SubSeq(text, k + 3, Len(text)) \o SubSeq(close, k + 1, Len(close))

\* re.sub(pattern, r'\1\2\3\4', text, flags=re.MULTILINE) from line i on:
\* the leftmost match is replaced and the search goes on after it.
RECURSIVE re_sub_from(_, _)
re_sub_from(lines, i) ==
    IF i > Len(lines) THEN <<>>
    ELSE IF MatchWithText(lines, i, LeadingSpaces(lines[i]))
    THEN <<Replacement(lines[i], lines[i + 1], lines[i + 2],
                       LeadingSpaces(lines[i]))>>
            \o re_sub_from(lines, i + 3)
    ELSE IF MatchWithoutText(lines, i, LeadingSpaces(lines[i]))
    THEN <<Replacement(lines[i], Spaces(LeadingSpaces(lines[i]) + 2),
                       lines[i + 1], LeadingSpaces(lines[i]))>>
            \o re_sub_from(lines, i + 2)
    ELSE <<lines[i]>> \o re_sub_from(lines, i + 1)

re_sub(lines) == re_sub_from(lines, 1)

----------------------------------------------------------------------------
(* my_prettify on its own: indent a tree, substitute, substitute again *)

MaxDepth == 2
MaxContents == 2

\* The texts of the leaves: the empty string, a word, a character that is
\* substituted, and two lines of which the second is indented.
TextSet ==
    { <<>>, <<"t">>, <<"<", "/">>, <<"t", "\n", " ", " ", " ", " ", "t">> }

\* The attributes of an element: none, or one with a value of two lines.
AttrsSet == { <<>>, << <<"v", "\n", " ", " ", "w">> >> }

\* The trees of at most the given depth.
RECURSIVE Nodes(_)
Nodes(depth) ==
    {NavigableString(s) : s \in TextSet}
        \cup (IF depth = 0 THEN {}
              ELSE {Tag(attrs, contents) :
                        attrs \in AttrsSet,
                        contents \in SeqsUpTo(Nodes(depth - 1), MaxContents)})

\* The documents handed to my_prettify are those create_manifest_xml and
\* create_zenodo_xml build: a root element over elements and text leaves,
\* after a doctype or without one.
Documents ==
    {[doctype |-> doctype, root |-> root] :
        doctype \in BOOLEAN,
        root \in {node \in Nodes(MaxDepth) : node.kind = "tag"}}

InitPrettify ==
    /\ pxml \in Documents
    /\ ptext = <<>>
    /\ pout = <<>>
    /\ pout2 = <<>>
    /\ ppc = "built"
    /\ IdleD
    /\ IdleZ
    /\ IdleMain

\* xml.prettify(formatter=MyFormatter()) + '\n'
Prettify ==
    /\ ppc = "built"
    /\ ptext' = prettify(pxml) \o << <<>> >>
    /\ ppc' = "indented"
    /\ UNCHANGED <<din, dobj, drendered, dobj2, dpc, zin, zout, zpc, inputs, runA, runB, pxml, pout, pout2>>

\* re.sub(...) of my_prettify
Collapse ==
    /\ ppc = "indented"
    /\ pout' = re_sub(ptext)
    /\ ppc' = "collapsed"
    /\ UNCHANGED <<din, dobj, drendered, dobj2, dpc, zin, zout, zpc, inputs, runA, runB, pxml, ptext, pout2>>

\* The same substitution on its own output.
CollapseAgain ==
    /\ ppc = "collapsed"
    /\ pout2' = re_sub(pout)
    /\ ppc' = "twice"
    /\ UNCHANGED <<din, dobj, drendered, dobj2, dpc, zin, zout, zpc, inputs, runA, runB, pxml, ptext, pout>>

NextPrettify == Prettify \/ Collapse \/ CollapseAgain

SpecPrettify == InitPrettify /\ [][NextPrettify]_vars

----------------------------------------------------------------------------
(* C4, C5: the DOI class *)

ClaimedLeadIns ==
    { <<>>,
      LitDoiColon,
      LitHttp \o LitColonSlashSlash \o LitDoiOrgSlash,
      LitHttp \o LitS \o LitColonSlashSlash \o LitDoiOrgSlash,
      LitHttp \o LitColonSlashSlash \o LitDxDot \o LitDoiOrgSlash,
      LitHttp \o LitS \o LitColonSlashSlash \o LitDxDot \o LitDoiOrgSlash }

\* s, from position p on, is "10." then one or more digits or dots, "/",
\* and a non-empty suffix without "/".
ClaimedTail(s, p) ==
    \E e \in (p + 4)..(Len(s) - 1) :
        /\ s[p] = "1" /\ s[p + 1] = "0" /\ s[p + 2] = "."
        /\ \A j \in (p + 3)..(e - 1) : s[j] = "." \/ s[j] \in Digits
        /\ s[e] = "/"
        /\ \A j \in (e + 1)..Len(s) : s[j] # "/"

ClaimedShape(s) ==
    \E lead \in ClaimedLeadIns :
        /\ MatchLit(s, 1, lead) # 0
        /\ ClaimedTail(s, Len(lead) + 1)

\* C4 (as claimed): DOI(s) succeeds exactly when s is an optional lead-in,
\* a prefix "10." followed by digits and dots, "/", and a non-empty suffix
\* without "/"; every other string is rejected with an error naming it.
C4_AcceptsExactlyClaimedShape ==
    dpc \in {"parsed", "rejected"} =>
        /\ dobj.ok <=> ClaimedShape(din)
        /\ ~dobj.ok => dobj.err.kind = "ValueError" /\ dobj.err.arg = din

\* C5: for every accepted string, rendering the parsed identifier as
\* prefix/suffix or as https://doi.org/prefix/suffix and parsing the
\* rendering yields the same (prefix, suffix) pair.
C5_RoundTrip ==
    dpc = "reparsed" =>
        /\ dobj2.ok
        /\ dobj2.prefix = dobj.prefix
        /\ dobj2.suffix = dobj.suffix

\* A doi: string was parsed, rendered as a URL and parsed again.
C5_Witness ==
    /\ dpc = "reparsed"
    /\ MatchLit(din, 1, LitDoiColon) # 0
    /\ MatchLit(drendered, 1, LitHttpsDoiOrg) # 0
    /\ dobj2.ok
    /\ Len(dobj2.prefix) > 4

----------------------------------------------------------------------------
(* C2: the author blocks of create_zenodo_xml *)

\* The sequence number an author block's anchor id stands for.
BlockSeq(block) ==
    int(SubSeq(block.ID, Len(LitArtseq) + 1, Len(block.ID))).val + 1

\* C2 (as claimed): the author blocks of every document are in ascending
\* sequence-number order, whatever the order of the authors in the paper
\* record.
C2_AuthorsAscending ==
    zpc = "returned" =>
        \A k \in 1..(Len(zout.val.names) - 1) :
            BlockSeq(zout.val.names[k]) < BlockSeq(zout.val.names[k + 1])

----------------------------------------------------------------------------
(* C8: the badges block of create_zenodo_xml *)

\* The row's BadgeSet: the non-empty values of the badge columns.
BadgeSet(arti_row) ==
    {strip(arti_row[BadgeColumns[k]]) : k \in 1..Len(BadgeColumns)} \ {<<>>}

TableIndex(leaf) ==
    CHOOSE k \in 1..Len(BadgeTable) : BadgeTable[k].xml_id = leaf.authority

\* C8: the badges block holds one topic leaf for each table token in the
\* row's BadgeSet and no other leaf, and the leaves are in table order.
C8_BadgesFromTable ==
    zpc = "returned" =>
        /\ \A k \in 1..Len(BadgeTable) :
              BadgeTable[k].csv_id \in BadgeSet(zin.arti_row)
                  <=> \E j \in 1..Len(zout.val.badges) :
                        zout.val.badges[j].authority = BadgeTable[k].xml_id
        /\ \A j \in 1..Len(zout.val.badges) :
              \E k \in 1..Len(BadgeTable) :
                  /\ zout.val.badges[j].authority = BadgeTable[k].xml_id
                  /\ zout.val.badges[j].text = BadgeTable[k].xml_desc
        /\ \A i, j \in 1..Len(zout.val.badges) :
              i < j => TableIndex(zout.val.badges[i]) < TableIndex(zout.val.badges[j])

\* A document whose two leaves come from tokens in columns other than their
\* own, in the opposite order, beside a token outside the table.
C8_Witness ==
    /\ zpc = "returned"
    /\ zin.arti_row["Available"] = <<" ">> \o BadgeFunctional \o <<" ">>
    /\ zin.arti_row["Functional"] = BadgeBest
    /\ zin.arti_row["Best"] = BadgeAvailable
    /\ Len(zout.val.badges) = 2
    /\ zout.val.badges[1].authority = "artifacts_available_v101"

----------------------------------------------------------------------------
(* C9, C10: the two identifiers of the document *)

\* cell, stripped, is an accepted lead-in followed by id.
RefersTo(cell, id) ==
    \E lead \in ClaimedLeadIns : strip(cell) = lead \o id

\* The identifiers the sample cells name.
SampleIds == IdBodies \cup {<<"1","0",".","1","/","c">>}

\* The identifier a cell names, whatever its form.
IdOf(cell) == CHOOSE id \in SampleIds : RefersTo(cell, id)

\* C9: the related-article link is the identifier of the row's DOI column,
\* and is not the identifier of the Available URL column when the two
\* differ.
C9_RelatedIsPaperDoi ==
    zpc = "returned" =>
        /\ \E id \in SampleIds :
              /\ RefersTo(zin.arti_row["DOI"], id)
              /\ zout.val.relatedHref = id
        /\ \A id \in SampleIds :
              (RefersTo(zin.arti_row["Available URL"], id)
                  /\ ~RefersTo(zin.arti_row["DOI"], id))
              => zout.val.relatedHref # id

\* A document for a row whose two columns name different identifiers, the
\* artifact's as a URL and the paper's bare.
C9_Witness ==
    /\ zpc = "returned"
    /\ zin.arti_row["Available URL"] = LitHttpsDoiOrg \o <<"1","0",".","1","/","a">>
    /\ zin.arti_row["DOI"] = <<"1","0",".","2","2","/","a">>
    /\ zout.val.relatedHref = <<"1","0",".","2","2","/","a">>

----------------------------------------------------------------------------
(* C1, C3, C7: one run of main *)

IsSkipRow(arti_row) ==
    /\ arti_row["Available URL"] # None
    /\ strip(arti_row["Available URL"]) = Unavailable

\* The paths of the archives the run has written.
WrittenPaths(run) ==
    {run.log[j].zip_path : j \in {i \in 1..Len(run.log) : run.log[i].kind = "archive"}}

\* C1 (as claimed): after a run without a fatal error every skipped row has
\* produced no archive and every other row one archive of its own at its
\* own path, so that the run has written as many archive files as there are
\* rows that are not skipped.
C1_OneArchivePerRow ==
    runA.pc = "done" =>
        /\ \A j \in 1..Len(runA.arti_csv) :
              IF IsSkipRow(runA.arti_csv[j])
              THEN runA.log[j].kind = "skip"
              ELSE /\ runA.log[j].kind = "archive"
                   /\ runA.log[j].zip_path \in DOMAIN runA.fs
                   /\ \A k \in 1..Len(runA.arti_csv) :
                         k # j /\ runA.log[k].kind = "archive"
                             => runA.log[k].zip_path # runA.log[j].zip_path
        /\ Cardinality(WrittenPaths(runA))
              = Cardinality({j \in 1..Len(runA.arti_csv) :
                                ~IsSkipRow(runA.arti_csv[j])})

\* Two rows of the table carry the same tracking key.
DuplicateRowKeys(arti_csv) ==
    \E j, k \in 1..Len(arti_csv) :
        /\ j < k
        /\ arti_csv[j][TrackingColumn] # None
        /\ arti_csv[k][TrackingColumn] # None
        /\ strip(arti_csv[j][TrackingColumn]) = strip(arti_csv[k][TrackingColumn])

\* Two paper records carry the same event_tracking_number.
DuplicatePaperKeys(toc_xml) ==
    \E j, k \in 1..Len(toc_xml) :
        /\ j < k
        /\ toc_xml[j].event_tracking_number # None
        /\ toc_xml[k].event_tracking_number # None
        /\ strip(toc_xml[j].event_tracking_number)
              = strip(toc_xml[k].event_tracking_number)

\* C3 (as claimed): a run over a table with two rows of the same tracking
\* key, or over paper records with two of the same event_tracking_number,
\* aborts with a fatal error: it never runs to completion.
C3_DuplicateKeysAreFatal ==
    (DuplicateRowKeys(drop_trailing_empty(inputs.csv_rows))
        \/ DuplicatePaperKeys(inputs.toc_xml))
    => runA.pc # "done"

\* The record the row is matched to, when there is one.
HasRecord(toc_papers, arti_row) ==
    /\ arti_row[TrackingColumn] # None
    /\ (PROCEEDING_PREFIX \o strip(arti_row[TrackingColumn])) \in DOMAIN toc_papers

RecordOf(toc_papers, arti_row) ==
    toc_papers[PROCEEDING_PREFIX \o strip(arti_row[TrackingColumn])]

\* The sequence numbers of the authors that have one, by position.
SeqNoAt(paper, k) == int(strip(paper.authors[k].sequence_no))

HasSeqNo(paper, k) ==
    /\ paper.authors[k].sequence_no # None
    /\ ~SeqNoAt(paper, k).raised

\* A required element of the record is missing.
RecordElementMissing(paper) ==
    \/ paper.paper_title = None
    \/ \E k \in 1..Len(paper.authors) :
          \/ paper.authors[k].sequence_no = None
          \/ MissingElements(paper.authors[k]) # {}

\* An author sequence number is not positive, or two are the same.
BadSequenceNumbers(paper) ==
    \/ \E k \in 1..Len(paper.authors) :
          HasSeqNo(paper, k) /\ SeqNoAt(paper, k).val <= 0
    \/ \E j, k \in 1..Len(paper.authors) :
          /\ j < k
          /\ HasSeqNo(paper, j) /\ HasSeqNo(paper, k)
          /\ SeqNoAt(paper, j).val = SeqNoAt(paper, k).val

\* The conditions on a row that are looked at before the row is skipped.
FatalBeforeSkip(toc_papers, arti_row) ==
    \/ arti_row[TrackingColumn] = None
    \/ arti_row["Title"] = None
    \/ arti_row["Available URL"] = None
    \/ ~HasRecord(toc_papers, arti_row)
    \/ RecordOf(toc_papers, arti_row).paper_title = None

\* The other conditions of the claim.
FatalAfterSkip(toc_papers, arti_row) ==
    \/ \E c \in Columns : arti_row[c] = None
    \/ ~DOI(strip(arti_row["Available URL"])).ok
    \/ ~DOI(strip(arti_row["DOI"])).ok
    \/ RecordElementMissing(RecordOf(toc_papers, arti_row))
    \/ BadSequenceNumbers(RecordOf(toc_papers, arti_row))

\* The fatal conditions of the claim, on any row.
ClaimedFatal(toc_papers, arti_row) ==
    \/ FatalBeforeSkip(toc_papers, arti_row)
    \/ (IF IsSkipRow(arti_row)
        THEN \/ \E c \in Columns : arti_row[c] = None
             \/ ~DOI(strip(arti_row["DOI"])).ok
             \/ RecordElementMissing(RecordOf(toc_papers, arti_row))
             \/ BadSequenceNumbers(RecordOf(toc_papers, arti_row))
        ELSE FatalAfterSkip(toc_papers, arti_row))

\* The fatal conditions that the run acts on: all of them on a row that is
\* not skipped, and on a skipped row those looked at before the skip.
AmendedFatal(toc_papers, arti_row) ==
    \/ FatalBeforeSkip(toc_papers, arti_row)
    \/ (~IsSkipRow(arti_row) /\ FatalAfterSkip(toc_papers, arti_row))

\* The run went through its rows in order and stopped at the first row
\* with one of the conditions, with the directory as it was before that
\* row.
StopsAtFirst(run, fatal_rows) ==
    /\ Len(run.log) = run.row_i - 1
    /\ \A j \in fatal_rows : run.row_i <= j
    /\ run.pc = "done" => fatal_rows = {}
    /\ (run.pc = "fatal" /\ run.row_i \in fatal_rows) => run.fs = run.fs_prev

\* C7 (as claimed): rows are processed in input order, and the run stops
\* at the first row that has a missing column, no paper record, a record
\* with a missing element or a bad author sequence number, or an
\* identifier that fails validation; nothing is removed or written for it
\* or for a later row.
C7_AnyFatalRowStopsRun ==
    runA.pc \in {"loop", "done", "fatal"} =>
        StopsAtFirst(runA, {j \in 1..Len(runA.arti_csv) :
                              ClaimedFatal(runA.toc_papers, runA.arti_csv[j])})

\* C7 (amended): the same, with the conditions of a skipped row limited to
\* those looked at before the skip.
C7_FatalRowStopsRun ==
    runA.pc \in {"loop", "done", "fatal"} =>
        StopsAtFirst(runA, {j \in 1..Len(runA.arti_csv) :
                              AmendedFatal(runA.toc_papers, runA.arti_csv[j])})

\* A run that wrote an archive for its first row and stopped at its second
\* on a failed assertion about the author sequence numbers, leaving the
\* directory as the first row left it.
C7_Witness ==
    /\ runA.pc = "fatal"
    /\ runA.row_i = 2
    /\ runA.log[1].kind = "archive"
    /\ runA.err.kind = "AssertionError"
    /\ AmendedFatal(runA.toc_papers, runA.arti_csv[2])
    /\ DOMAIN runA.fs = {runA.log[1].zip_path}

----------------------------------------------------------------------------
(* C6: two runs of main *)

\* The archive at a path written by the run: the four entries, in order,
\* each with the issue date, its mode and its place under the suffix.
IsArchiveOf(entries, suffix) ==
    /\ Len(entries) = 4
    /\ entries[1].filename = LitManifest
    /\ entries[2].filename = suffix \o <<"/">>
    /\ entries[3].filename = suffix \o LitMeta
    /\ entries[4].filename = suffix \o LitMeta \o suffix \o LitXml
    /\ \A k \in 1..4 :
          entries[k].date_time
              = <<DATE_ISSUED[1], DATE_ISSUED[2], DATE_ISSUED[3], 0, 0, 0>>
    /\ \A k \in {1, 4} : entries[k].external_attr = 420 * 65536
    /\ \A k \in {2, 3} : entries[k].external_attr = (16877 * 65536) + 16

SuffixOfPath(path) ==
    SubSeq(path, Len(PATH_OUTPUT) + Len(LitArtifacts) + 2,
           Len(path) - Len(LitZip) - 9)

\* C6: two runs over the same rows, records and configuration write the
\* same set of archive paths and leave at each path the same four entries
\* in the same order, whatever the clock and whatever was at the path
\* before.
C6_SameArchives ==
    (Finished(runA) /\ Finished(runB)) =>
        /\ runA.pc = runB.pc
        /\ WrittenPaths(runA) = WrittenPaths(runB)
        /\ \A p \in WrittenPaths(runA) :
              /\ runA.fs[p] = runB.fs[p]
              /\ IsArchiveOf(runA.fs[p], SuffixOfPath(p))

\* Two finished runs that wrote an archive, the second at a later time and
\* on a directory that did not start as the first one's.
C6_Witness ==
    /\ runA.pc = "done"
    /\ runB.pc = "done"
    /\ WrittenPaths(runA) # {}
    /\ runB.clock > runA.clock
    /\ Len(runB.log) = 2
    /\ DOMAIN runA.fs # DOMAIN runB.fs

----------------------------------------------------------------------------
(* C11: the substitution of my_prettify, applied twice *)

====
